---------------------------- MODULE Spec2Model ----------------------------
(***************************************************************************)
(* One recognition channel of the Vosk recognizer plugin                   *)
(* (plugins/vosk-recog/src/vosk_recog_engine.c).                           *)
(*                                                                         *)
(* Two threads of control touch the channel:                               *)
(*   - the engine's consumer task (vosk_recog_msg_process), which handles  *)
(*     open-channel, close-channel and the dispatched MRCP requests;       *)
(*   - the media thread, which calls vosk_recog_stream_write per frame.    *)
(* The code takes no lock, so a worker handler can run between two steps   *)
(* of a frame; the frame callback is therefore modelled in three steps     *)
(* (stop check, detector, decoder) with its position in sw_pc.             *)
(*                                                                         *)
(* A step that dereferences a null pointer stops the process; a step that  *)
(* writes one byte past a malloc'ed buffer either lands in allocator slack *)
(* or corrupts the heap: both outcomes are kept.  The faulting site is     *)
(* recorded in 'fault'; no action is enabled after a fault.                *)
(***************************************************************************)
EXTENDS Integers, Sequences, FiniteSets, TLC

(* ------------------------------ bounds --------------------------------- *)

\* number of MRCP requests the worker processes in one run
MaxReq == 3

\* grammar documents of the pure-matcher specification: elements under the
\* root, and pattern-carrying children per element
MaxElems == 2
MaxItems == 2

(* ------------------------- program constants --------------------------- *)

NULL == "NULL"

\* apt_bool_t values; INDETERMINATE is whatever an uninitialised field holds
ApFalse == "FALSE"
ApTrue == "TRUE"
INDETERMINATE == "indeterminate"

Methods ==
  { "SET-PARAMS", "GET-PARAMS", "DEFINE-GRAMMAR", "RECOGNIZE", "GET-RESULT",
    "START-INPUT-TIMERS", "STOP" }

\* mrcp_response_create: status 200 SUCCESS, request state COMPLETE
StatusSuccess == "200-success"
StatusMethodFailed == "407-method-failed"

CauseSuccess == "000-success"
CauseNoInputTimeout == "002-no-input-timeout"

(* ------------------------------ state ---------------------------------- *)

VARIABLES
  chan_state,        \* "created" | "open" | "closed": what the worker has processed
  nreq,              \* number of requests dispatched so far; request ids are 1..nreq
  msg,               \* the message the consumer task processed last
  descriptor,        \* sampling rate of the negotiated codec descriptor; 0: none
  recog_request,     \* recog_channel->recog_request: 0 (NULL) or a request id
  stop_response,     \* recog_channel->stop_response: 0 (NULL) or the STOP's id
  timers_started,    \* recog_channel->timers_started (not set by channel_create)
  detector,          \* state of recog_channel->detector
  audio_out,         \* recog_channel->audio_out is an open FILE
  grammar,           \* recog_channel->grammar: NullDoc or << document >>
  recognizer,        \* recog_channel->recognizer: NULL or "live"
  input_finalized_,  \* the recognizer's finalized flag
  decoded,           \* the recognizer has been given audio since it was created
  sw_pc,             \* position of the media thread in vosk_recog_stream_write
  det_event,         \* local 'det_event' of the frame in progress
  end,               \* local 'end' of the frame in progress
  frame,             \* the frame in progress: what the recognizer makes of its audio
  kr,                \* recognizer specification: the KaldiRecognizer's objects
  rc,                \* recognizer specification: the last call and what it returned
  ncalls,            \* recognizer specification: calls made on the recognizer
  partial,           \* matcher specification: the text given to prase_grammar
  early,             \* matcher specification: the value prase_grammar returned
  out,               \* messages handed to the server, in order
  fault              \* "none", or the site at which the process faulted

vars ==
  << chan_state, nreq, msg, descriptor, recog_request, stop_response,
     timers_started, detector, audio_out, grammar, recognizer, input_finalized_,
     decoded, sw_pc, det_event, end, frame, kr, rc, ncalls, partial, early, out, fault >>

(* ------------------------------ messages ------------------------------- *)

\* what mrcp_engine_channel_message_send / open_respond / close_respond hand over
Msg(kind, method, req, status, state, cause, body) ==
  [ kind |-> kind, method |-> method, req |-> req, status |-> status,
    state |-> state, cause |-> cause, body |-> body ]

\* mrcp_response_create(request, pool): status SUCCESS, request state COMPLETE
mrcp_response_create(r) ==
  Msg("response", "-", r, StatusSuccess, "COMPLETE", "-", <<>>)

(* --------------------- text, patterns and grammars --------------------- *)

\* C strings are sequences of characters.
Str_yes == << "y", "e", "s" >>
Str_no == << "n", "o" >>
\* an unbalanced parenthesis: regcomp(REG_EXTENDED) rejects it
Str_bad == << "(" >>

\* KaldiRecognizer::PartialResult: {"partial" : "<words>"}
PartialResultText(words) ==
  << "{", "\"", "p", "a", "r", "t", "i", "a", "l", "\"", " ", ":", " ", "\"" >>
    \o words \o << "\"", "}" >>

\* hypotheses the decoder may hold when the partial result is taken
Hyps == { <<>>, Str_yes, Str_no }

\* What the recognizer makes of a frame's audio: ret is what
\* vosk_recognizer_accept_waveform returns for it (nonzero: endpoint), hyp the
\* hypothesis the partial result then shows.  NoFrame: no frame in progress
\* (ret as line 679 initialises it).
NoFrame == [ ret |-> -1, hyp |-> <<>> ]
Frames == { [ ret |-> 1, hyp |-> <<>> ] } \cup { [ ret |-> 0, hyp |-> h ] : h \in Hyps }

\* regcomp(&reg, pattern, REG_EXTENDED) succeeds: no unbalanced parenthesis
regcomp_ok(pattern) == \A k \in 1..Len(pattern) : pattern[k] # "("

\* regexec(&reg, text, ...) == REG_NOERROR for a compiled pattern of literal
\* characters and "." (any one character): the pattern occurs somewhere in text
regexec_match(pattern, text) ==
  \E i \in 1..Len(text) :
    /\ i + Len(pattern) - 1 <= Len(text)
    /\ \A k \in 1..Len(pattern) : pattern[k] = "." \/ pattern[k] = text[i + k - 1]

\* A parsed document (apr_xml_doc): the root's name and, in document order, the
\* root's child elements; an element has a name, the value of its id attribute
\* (NULL when it has none) and its own children, each the text of the child's
\* first cdata (NoText when the child has none).  A document pointer is a
\* sequence: NullDoc for the null pointer, << d >> for a pointer to d.
NoText == <<>>
NullDoc == <<>>
Doc(root, elems) == [ root |-> root, elems |-> elems ]
Elem(name, id, items) == [ name |-> name, id |-> id, items |-> items ]

\* The inner loop of prase_grammar over one rule's children, from child k on.
\* Returns [ done, id, ovf ]: whether a return statement was reached, the value
\* returned, and whether strcat wrote past the pattern buffer (it always does:
\* the buffer has strlen+1 bytes and strcpy+strcat need strlen+2).
RECURSIVE prase_children(_, _, _, _, _)
prase_children(items, k, id, result, ovf) ==
  IF k > Len(items) THEN [ done |-> FALSE, id |-> NULL, ovf |-> ovf ]
  ELSE IF items[k] = NoText THEN prase_children(items, k + 1, id, result, ovf)
  ELSE LET pattern == items[k] \o << "." >> IN
       IF ~regcomp_ok(pattern) THEN [ done |-> TRUE, id |-> NULL, ovf |-> TRUE ]
       ELSE IF regexec_match(pattern, result)
            THEN [ done |-> TRUE, id |-> id, ovf |-> TRUE ]
            ELSE prase_children(items, k + 1, id, result, TRUE)

\* The outer loop of prase_grammar over the root's children, from element e on.
RECURSIVE prase_elems(_, _, _, _)
prase_elems(elems, e, result, ovf) ==
  IF e > Len(elems) THEN [ id |-> NULL, ovf |-> ovf ]
  ELSE IF elems[e].name # "rule" THEN prase_elems(elems, e + 1, result, ovf)
  ELSE LET c == prase_children(elems[e].items, 1, elems[e].id, result, ovf) IN
       IF c.done THEN [ id |-> c.id, ovf |-> c.ovf ]
       ELSE prase_elems(elems, e + 1, result, c.ovf)

\* prase_grammar(doc, result) for a non-null doc pointer: [ id, ovf ]
prase_grammar(doc, result) == prase_elems(doc[1].elems, 1, result, FALSE)

\* check_grammar(doc)
check_grammar(doc) ==
  IF doc = NullDoc THEN FALSE
  ELSE IF doc[1].root # "grammar" THEN FALSE
  ELSE TRUE

\* documents a DEFINE-GRAMMAR body may parse to in the channel specification
DocEmpty == Doc("grammar", <<>>)
DocYesNo ==
  Doc("grammar", << Elem("rule", "A", << Str_yes >>), Elem("rule", "B", << Str_no >>) >>)
DocBadFirst ==
  Doc("grammar", << Elem("rule", "A", << Str_bad >>), Elem("rule", "B", << Str_yes >>) >>)
DocOtherRoot == Doc("other", << Elem("rule", "A", << Str_yes >>) >>)
ParsedDocs == { DocEmpty, DocYesNo, DocBadFirst, DocOtherRoot }

\* What the DEFINE-GRAMMAR handler finds in request->body:
\*   "no-match"    regexec of <grammar.*</grammar> fails
\*   "over-size"   the match is 4096 bytes or longer
\*   "feed-error"  apr_xml_parser_feed fails
\*   "done-error"  apr_xml_parser_done fails (the document pointer is not stored)
\*   "other-root"  the body parses to a document whose root is not <grammar>
\*   "well-formed" the body parses to a document whose root is <grammar>
Unparsed == { "no-match", "over-size", "feed-error", "done-error" }
Malformed == Unparsed \cup { "other-root" }
Bodies ==
  { [ shape |-> sh, doc |-> NullDoc ] : sh \in Unparsed }
    \cup { [ shape |-> IF d.root = "grammar" THEN "well-formed" ELSE "other-root",
             doc |-> << d >> ] : d \in ParsedDocs }

(* ---------------- the recognizer: kaldi_recognizer.cc ------------------ *)

\* calls made on one recognizer in a run of the recognizer specification
MaxCalls == 5

\* PartialResult: below this many decoded frames the partial text is empty
MinFrames == 50

\* numbers of frames one AcceptWaveform may add to the decoded frames
FrameSteps == { 0, 1, 24 }

\* KaldiRecognizer::Result: the JSON text for the one-best hypothesis h
ResultText(h) ==
  << "{\"result\" : [ " >>
    \o (IF h = <<>> THEN <<>>
        ELSE << "{\"word\": \"" >> \o h \o << "\", \"start\" : ", "t0", ",",
                " \"end\" : ", "t1", ", \"conf\" : ", "c", "}", "\n" >>)
    \o << " ], \"text\" : \"" >> \o h \o << "\" }" >>

\* The objects a KaldiRecognizer owns.  An object is known by the number of
\* its allocation (id); next_id is the number the next allocation gets.
\*   feature_pipeline_: adapt is its adaptation state (0: blank, else the
\*     amount of audio it has adapted to), pending the frames held back for
\*     right context until InputFinished
\*   decoder_: frames is NumFramesDecoded(), hyp the best hypothesis,
\*     finalizations the number of FinalizeDecoding calls it has had
NewPipeline(id, adapt) == [ id |-> id, adapt |-> adapt, pending |-> 0 ]
NewDecoder(id) == [ id |-> id, frames |-> 0, hyp |-> <<>>, finalizations |-> 0 ]

\* KaldiRecognizer::KaldiRecognizer
KaldiRecognizer ==
  [ feature_pipeline_ |-> NewPipeline(1, 0),
    silence_weighting_ |-> 2,
    decoder_ |-> NewDecoder(3),
    next_id |-> 4 ]

\* mutant: the new feature pipeline is left with a blank adaptation state
CleanUp_without_adaptation(k) ==
  [ feature_pipeline_ |-> NewPipeline(k.next_id, 0),
    silence_weighting_ |-> k.next_id + 1,
    decoder_ |-> NewDecoder(k.next_id + 2),
    next_id |-> k.next_id + 3 ]

\* KaldiRecognizer::CleanUp
CleanUp(k) ==
  LET state == k.feature_pipeline_.adapt IN
  [ feature_pipeline_ |-> NewPipeline(k.next_id, state),
    silence_weighting_ |-> k.next_id + 1,
    decoder_ |-> NewDecoder(k.next_id + 2),
    next_id |-> k.next_id + 3 ]

\* no call made yet; prev is the call before the last one, last_result what
\* the last Result call returned
NoCall == [ op |-> "none", prev |-> "none", val |-> <<>>, last_result |-> <<>> ]

(* ------------------------------- Init ---------------------------------- *)

\* vosk_recog_msg_t: the message type, and for a request its method and what
\* the handler reads from it (the body's shape, the Start-Input-Timers header)
TaskMsg(type, method, detail) == [ type |-> type, method |-> method, detail |-> detail ]

\* vosk_recog_engine_channel_create: every field but timers_started is set;
\* the channel is apr_palloc'ed, so timers_started holds whatever was there.
Init ==
  /\ chan_state = "created"
  /\ nreq = 0
  /\ msg = TaskMsg("none", "-", "-")
  /\ descriptor \in { 0, 8000, 16000 }
  /\ recog_request = 0
  /\ stop_response = 0
  /\ timers_started \in { ApTrue, ApFalse, INDETERMINATE }
  /\ detector = "INACTIVITY"
  /\ audio_out = FALSE
  /\ grammar = NullDoc
  /\ recognizer = NULL
  /\ input_finalized_ = FALSE
  /\ decoded = FALSE
  /\ sw_pc = "idle"
  /\ det_event = "NONE"
  /\ end = 0
  /\ frame = NoFrame
  /\ kr = KaldiRecognizer
  /\ rc = NoCall
  /\ ncalls = 0
  /\ partial = <<>>
  /\ early = NULL
  /\ out = <<>>
  /\ fault = "none"

(* ------------------- the consumer task: control messages --------------- *)

\* vosk_recog_msg_process, case vosk_recog_MSG_OPEN_CHANNEL
OpenChannel ==
  /\ fault = "none"
  /\ chan_state = "created"
  /\ chan_state' = "open"
  /\ msg' = TaskMsg("OPEN_CHANNEL", "-", "-")
  /\ out' = Append(out, Msg("open-response", "-", 0, StatusSuccess, "-", "-", <<>>))
  /\ UNCHANGED << nreq, descriptor, recog_request, stop_response, timers_started,
                  detector, audio_out, grammar, recognizer, input_finalized_, decoded,
                  sw_pc,
                  det_event, end, partial, early, frame, kr, rc, ncalls, fault >>

\* vosk_recog_msg_process, case vosk_recog_MSG_CLOSE_CHANNEL
CloseChannel ==
  /\ fault = "none"
  /\ chan_state = "open"
  /\ chan_state' = "closed"
  /\ msg' = TaskMsg("CLOSE_CHANNEL", "-", "-")
  /\ audio_out' = FALSE
  /\ recognizer' = NULL
  /\ input_finalized_' = FALSE
  /\ decoded' = FALSE
  /\ out' = Append(out, Msg("close-response", "-", 0, StatusSuccess, "-", "-", <<>>))
  /\ UNCHANGED << nreq, descriptor, recog_request, stop_response, timers_started,
                  detector, grammar, sw_pc, det_event, end, partial, early, frame, kr, rc, ncalls, fault >>

\* A request reaches vosk_recog_channel_request_dispatch: the server dispatches
\* requests to an open channel; the run processes at most MaxReq of them.
Dispatched(m, detail) ==
  /\ fault = "none"
  /\ chan_state = "open"
  /\ nreq < MaxReq
  /\ nreq' = nreq + 1
  /\ msg' = TaskMsg("REQUEST_PROCESS", m, detail)

\* the cases that only break: processed stays FALSE and the response is sent
RequestNotHandled(m) ==
  /\ Dispatched(m, "-")
  /\ out' = Append(out, mrcp_response_create(nreq + 1))
  /\ UNCHANGED << chan_state, descriptor, recog_request, stop_response,
                  timers_started, detector, audio_out, grammar, recognizer,
                  input_finalized_, decoded,
                  sw_pc, det_event, end, partial, early, frame, kr, rc, ncalls, fault >>

SetParams == RequestNotHandled("SET-PARAMS")
GetParams == RequestNotHandled("GET-PARAMS")
GetResult == RequestNotHandled("GET-RESULT")

\* case RECOGNIZER_DEFINE_GRAMMAR: the grammar pointer after the handler
define_grammar_store(b, g) == IF b.shape \in Unparsed THEN g ELSE b.doc

\* case RECOGNIZER_DEFINE_GRAMMAR: TRUE when the handler leaves the switch by
\* break (the response is then sent), FALSE when it returns FALSE from inside
define_grammar_breaks(b) == b.shape \notin Unparsed /\ check_grammar(b.doc)

DefineGrammar ==
  \E b \in Bodies :
    /\ Dispatched("DEFINE-GRAMMAR", b.shape)
    /\ grammar' = define_grammar_store(b, grammar)
    /\ out' = IF define_grammar_breaks(b)
              THEN Append(out, mrcp_response_create(nreq + 1))
              ELSE out
    /\ UNCHANGED << chan_state, descriptor, recog_request, stop_response,
                    timers_started, detector, audio_out, recognizer,
                    input_finalized_, decoded,
                  sw_pc, det_event, end, partial, early, frame, kr, rc, ncalls, fault >>

\* vosk_recognizer_new(kaldi_engine->model, 8000.0f): the sampling rate the
\* channel's recognizer is created with
vosk_recognizer_new_rate == 8000

\* feature_pipeline_->AcceptWaveform(8000, wave): the sampling rate at which
\* the recognizer hands every frame to the feature pipeline
AcceptWaveformRate == 8000

\* mutant: timers_started is assigned before the codec descriptor is checked
recognize_timers_before_check(desc, sit, ts) == IF sit = "absent" THEN ApTrue ELSE sit

\* vosk_recog_channel_recognize: timers_started after the handler; sit is the
\* Start-Input-Timers header of the request ("absent", or its value)
recognize_timers(desc, sit, ts) ==
  IF desc = 0 THEN ts
  ELSE IF sit = "absent" THEN ApTrue ELSE sit

\* vosk_recog_channel_recognize: the response it leaves to be sent
recognize_response(desc, r) ==
  IF desc = 0
  THEN Msg("response", "-", r, StatusMethodFailed, "COMPLETE", "-", <<>>)
  ELSE Msg("response", "-", r, StatusSuccess, "IN-PROGRESS", "-", <<>>)

\* vosk_recog_channel_recognize: the active request after the handler
recognize_request(desc, r, cur) == IF desc = 0 THEN cur ELSE r

\* vosk_recog_channel_recognize: utterance file and recognizer after the handler
recognize_audio_out(desc, cur, fopen_ok) == IF desc = 0 THEN cur ELSE (cur \/ fopen_ok)
recognize_recognizer(desc, cur) == IF desc = 0 THEN cur ELSE "live"

\* vosk_recog_channel_recognize: a recognizer it creates has had no audio
recognize_decoded(desc, cur, dec) == IF desc # 0 /\ cur = NULL THEN FALSE ELSE dec

Recognize ==
  \E sit \in { "absent", ApTrue, ApFalse }, fopen_ok \in BOOLEAN :
    LET r == nreq + 1 IN
    /\ Dispatched("RECOGNIZE", sit)
    /\ timers_started' = recognize_timers(descriptor, sit, timers_started)
    /\ audio_out' = recognize_audio_out(descriptor, audio_out, fopen_ok)
    /\ recognizer' = recognize_recognizer(descriptor, recognizer)
    /\ decoded' = recognize_decoded(descriptor, recognizer, decoded)
    /\ out' = Append(out, recognize_response(descriptor, r))
    /\ recog_request' = recognize_request(descriptor, r, recog_request)
    /\ UNCHANGED << chan_state, descriptor, stop_response, detector, grammar,
                    input_finalized_,
                  sw_pc, det_event, end, partial, early, frame, kr, rc, ncalls, fault >>

\* vosk_recog_channel_stop: the response is stored, nothing is sent
Stop ==
  /\ Dispatched("STOP", "-")
  /\ stop_response' = nreq + 1
  /\ UNCHANGED << chan_state, descriptor, recog_request, timers_started, detector,
                  audio_out, grammar, recognizer, input_finalized_, decoded, sw_pc,
                  det_event, end,
                  partial, early, frame, kr, rc, ncalls, out, fault >>

\* vosk_recog_channel_timers_start
StartInputTimers ==
  /\ Dispatched("START-INPUT-TIMERS", "-")
  /\ timers_started' = ApTrue
  /\ out' = Append(out, mrcp_response_create(nreq + 1))
  /\ UNCHANGED << chan_state, descriptor, recog_request, stop_response, detector,
                  audio_out, grammar, recognizer, input_finalized_, decoded, sw_pc,
                  det_event, end,
                  partial, early, frame, kr, rc, ncalls, fault >>

(* ------------------- the media thread: one audio frame ----------------- *)

\* The channel fields and frame locals a frame step reads and writes.
Chan ==
  [ recog_request |-> recog_request, stop_response |-> stop_response,
    timers_started |-> timers_started, det_event |-> det_event,
    grammar |-> grammar, recognizer |-> recognizer,
    input_finalized_ |-> input_finalized_, decoded |-> decoded, end |-> end,
    out |-> out,
    fault |-> fault ]

Faulted(c, site) == [ c EXCEPT !.fault = site ]

\* vosk_recog_start_of_input
vosk_recog_start_of_input(c) ==
  IF c.recog_request = 0 THEN Faulted(c, "start_of_input: null recog_request")
  ELSE [ c EXCEPT !.out = Append(@, Msg("event", "START-OF-INPUT", c.recog_request,
                                        "-", "IN-PROGRESS", "-", <<>>)) ]

\* vosk_recog_recognition_complete(recog_channel, cause, early).  heap says
\* whether a one-byte overrun of a malloc'ed buffer lands in slack or corrupts
\* the heap; the body buffer has strlen(result)+strlen(early) bytes and
\* strcpy+strcat write one more.
vosk_recog_recognition_complete(c, cause, earlyid, heap) ==
  IF c.recog_request = 0 THEN Faulted(c, "recognition_complete: null recog_request")
  ELSE IF cause = CauseSuccess /\ c.recognizer = NULL
       THEN Faulted(c, "vosk_recognizer_result: null recognizer")
  ELSE IF cause = CauseSuccess /\ earlyid # NULL /\ heap = "corrupt"
       THEN Faulted(c, "recognition_complete: body buffer overrun")
  ELSE [ c EXCEPT
           !.out = Append(@, Msg("event", "RECOGNITION-COMPLETE", c.recog_request, "-",
                                 "COMPLETE", cause,
                                 IF cause # CauseSuccess THEN <<>>
                                 ELSE IF earlyid = NULL THEN << "result" >>
                                 ELSE << "result", "<earlyres>", earlyid, "</earlyres>" >>)),
           !.input_finalized_ = IF cause = CauseSuccess THEN TRUE ELSE @,
           !.recog_request = 0 ]

\* mpf_activity_detector_process: the event reported for a frame and the
\* detector's next state.  Levels and timeouts are inputs, so every event the
\* state allows is possible.
DetectorProcess(d) ==
  IF d = "INACTIVITY"
  THEN { [ event |-> "NONE", state |-> "INACTIVITY" ],
         [ event |-> "NOINPUT", state |-> "INACTIVITY" ],
         [ event |-> "ACTIVITY", state |-> "ACTIVITY" ] }
  ELSE { [ event |-> "NONE", state |-> "ACTIVITY" ],
         [ event |-> "INACTIVITY", state |-> "INACTIVITY" ] }

\* mutant: the frame answers the STOP and leaves the request active
answer_stop_keeping_request(c) ==
  [ c EXCEPT !.out = Append(@, Msg("response", "-", c.stop_response, StatusSuccess,
                                   "COMPLETE", "-", <<>>)),
             !.stop_response = 0 ]

\* vosk_recog_stream_write with a stop response pending: the response is sent
\* and both pointers are cleared
answer_stop(c) ==
  [ c EXCEPT !.out = Append(@, mrcp_response_create(c.stop_response)),
             !.stop_response = 0,
             !.recog_request = 0 ]

\* mutant: the NOINPUT case completes the request whatever timers_started holds
noinput_completes_always(ts) == TRUE

\* the NOINPUT case completes the request only when timers_started == TRUE
noinput_completes(ts) == ts = ApTrue

\* mutant: the NOINPUT case falls into the ACTIVITY case
detect_event_noinput_as_activity(c0, ev, heap) ==
  LET c == [ c0 EXCEPT !.det_event = ev, !.end = 0 ] IN
  IF ev \in { "ACTIVITY", "NOINPUT" } THEN vosk_recog_start_of_input(c)
  ELSE IF ev = "INACTIVITY"
       THEN [ vosk_recog_recognition_complete(c, CauseSuccess, NULL, heap)
                EXCEPT !.end = 1 ]
  ELSE c

\* vosk_recog_stream_write, the switch on the detector event
detect_event(c0, ev, heap) ==
  LET c == [ c0 EXCEPT !.det_event = ev, !.end = 0 ] IN
  IF ev = "ACTIVITY" THEN vosk_recog_start_of_input(c)
  ELSE IF ev = "INACTIVITY"
       THEN [ vosk_recog_recognition_complete(c, CauseSuccess, NULL, heap)
                EXCEPT !.end = 1 ]
  ELSE IF ev = "NOINPUT" /\ noinput_completes(c.timers_started)
       THEN [ vosk_recog_recognition_complete(c, CauseNoInputTimeout, NULL, heap)
                EXCEPT !.end = 1 ]
  ELSE c

\* vosk_recog_stream_write from vosk_recognizer_accept_waveform on; ret is
\* what the recognizer returns, hyp its current hypothesis.  The locals of the
\* frame end with it, so end is 0 again afterwards.
decode_frame(c, ret, hyp, heap) ==
  LET a == [ c EXCEPT !.input_finalized_ = FALSE, !.decoded = TRUE, !.end = 0,
                     !.det_event = "NONE" ] IN
  IF ret # 0 THEN vosk_recog_recognition_complete(a, CauseSuccess, NULL, heap)
  ELSE IF c.end # 0 THEN a
  ELSE IF c.grammar = NullDoc THEN Faulted(a, "prase_grammar: null doc")
  ELSE LET g == prase_grammar(c.grammar, PartialResultText(hyp)) IN
       IF g.ovf /\ heap = "corrupt"
       THEN Faulted(a, "prase_grammar: pattern buffer overrun")
       ELSE IF g.id = NULL THEN a
       ELSE IF heap = "corrupt"
            THEN Faulted(a, "stream_write: earlyres buffer overrun")
       ELSE vosk_recog_recognition_complete(a, CauseSuccess, g.id, heap)

\* the frame step writes c back to the channel
Store(c) ==
  /\ recog_request' = c.recog_request
  /\ stop_response' = c.stop_response
  /\ det_event' = c.det_event
  /\ input_finalized_' = c.input_finalized_
  /\ decoded' = c.decoded
  /\ end' = c.end
  /\ out' = c.out
  /\ fault' = c.fault

\* vosk_recog_stream_write, the stop check: the first statement of the frame
StreamWriteBegin ==
  /\ fault = "none"
  /\ sw_pc = "idle"
  /\ IF stop_response # 0
     THEN /\ Store(answer_stop(Chan))
          /\ sw_pc' = "idle"
     ELSE /\ sw_pc' = "detect"
          /\ UNCHANGED << recog_request, stop_response, det_event,
                          input_finalized_, decoded, end, out, fault >>
  /\ UNCHANGED << chan_state, nreq, msg, descriptor, timers_started, detector,
                  audio_out, grammar, recognizer, partial, early, frame, kr, rc, ncalls >>

\* mutant: the frame is processed whether or not a request is active
frame_has_request_always(r) == TRUE

\* if(recog_channel->recog_request) around the processing of a frame
frame_has_request(r) == r # 0

\* vosk_recog_stream_write, the detector step
StreamWriteDetect ==
  /\ fault = "none"
  /\ sw_pc = "detect"
  /\ IF ~frame_has_request(recog_request)
     THEN /\ sw_pc' = "idle"
          /\ UNCHANGED << detector, recog_request, stop_response, det_event,
                          input_finalized_, decoded, end, frame, out, fault >>
     ELSE \E d \in DetectorProcess(detector), f \in Frames :
            /\ detector' = d.state
            /\ Store(detect_event(Chan, d.event, "slack"))
            /\ frame' = f
            /\ sw_pc' = "decode"
  /\ UNCHANGED << chan_state, nreq, msg, descriptor, timers_started, audio_out,
                  grammar, recognizer, partial, early, kr, rc, ncalls >>

\* vosk_recog_stream_write, the utterance file and the recognizer
StreamWriteDecode ==
  /\ fault = "none"
  /\ sw_pc = "decode"
  /\ sw_pc' = "idle"
  /\ IF recognizer = NULL
     THEN /\ end' = 0
          /\ det_event' = "NONE"
          /\ UNCHANGED << recog_request, stop_response, input_finalized_, decoded,
                          out, fault >>
     ELSE \E heap \in { "slack", "corrupt" } :
            Store(decode_frame(Chan, frame.ret, frame.hyp, heap))
  /\ frame' = NoFrame
  /\ UNCHANGED << chan_state, nreq, msg, descriptor, timers_started, detector,
                  audio_out, grammar, recognizer, partial, early, kr, rc, ncalls >>

(* --------------------------- specification ----------------------------- *)

Next ==
  \/ OpenChannel
  \/ CloseChannel
  \/ SetParams
  \/ GetParams
  \/ DefineGrammar
  \/ Recognize
  \/ GetResult
  \/ StartInputTimers
  \/ Stop
  \/ StreamWriteBegin
  \/ StreamWriteDetect
  \/ StreamWriteDecode

Spec == Init /\ [][Next]_vars

(* ----------------- the matcher on its own: prase_grammar --------------- *)

\* Texts a rule's child may carry: none, a phrase, a pattern regcomp rejects.
ItemTexts == { NoText, Str_yes, Str_bad }

\* The children of one element: every sequence of at most n texts.
RECURSIVE ItemSeqs(_)
ItemSeqs(n) ==
  IF n = 0 THEN { <<>> }
  ELSE LET s == ItemSeqs(n - 1) IN
       s \cup { Append(x, t) : x \in { y \in s : Len(y) = n - 1 }, t \in ItemTexts }

\* The element at document position i: some other element, or a rule with or
\* without an id; rule ids are named after the position.
RuleIds == << "A", "B", "C", "D" >>
ElemsAt(i) ==
  { Elem("item", NULL, <<>>) }
    \cup { Elem("rule", id, its) : id \in { NULL, RuleIds[i] }, its \in ItemSeqs(MaxItems) }

RECURSIVE ElemSeqs(_)
ElemSeqs(n) ==
  IF n = 0 THEN { <<>> }
  ELSE { Append(s, e) : s \in ElemSeqs(n - 1), e \in ElemsAt(n) }

\* the grammar documents with at most n elements under the root
MatcherDocs(n) == UNION { { Doc("grammar", es) : es \in ElemSeqs(k) } : k \in 0..n }

\* A channel with a recognition in progress, any grammar of the bounded set
\* and any partial text, just before line 685 of vosk_recog_stream_write.
InitMatcher ==
  /\ chan_state = "open"
  /\ nreq = 1
  /\ msg = TaskMsg("REQUEST_PROCESS", "RECOGNIZE", "absent")
  /\ descriptor = 8000
  /\ recog_request = 1
  /\ stop_response = 0
  /\ timers_started = ApTrue
  /\ detector = "INACTIVITY"
  /\ audio_out = TRUE
  /\ grammar \in { << d >> : d \in MatcherDocs(MaxElems) }
  /\ recognizer = "live"
  /\ input_finalized_ = FALSE
  /\ decoded = FALSE
  /\ sw_pc = "matcher"
  /\ det_event = "NONE"
  /\ end = 0
  /\ frame = NoFrame
  /\ kr = KaldiRecognizer
  /\ rc = NoCall
  /\ ncalls = 0
  /\ partial \in { PartialResultText(h) : h \in Hyps }
  /\ early = NULL
  /\ out = << Msg("open-response", "-", 0, StatusSuccess, "-", "-", <<>>),
              Msg("response", "-", 1, StatusSuccess, "IN-PROGRESS", "-", <<>>) >>
  /\ fault = "none"

\* const char *early = prase_grammar(recog_channel->grammar, result);
PraseGrammar ==
  /\ fault = "none"
  /\ sw_pc = "matcher"
  /\ sw_pc' = "matched"
  /\ \E heap \in { "slack", "corrupt" } :
       LET g == prase_grammar(grammar, partial) IN
       IF g.ovf /\ heap = "corrupt"
       THEN /\ fault' = "prase_grammar: pattern buffer overrun"
            /\ early' = early
       ELSE /\ fault' = fault
            /\ early' = g.id
  /\ UNCHANGED << chan_state, nreq, msg, descriptor, recog_request, stop_response,
                  timers_started, detector, audio_out, grammar, recognizer,
                  input_finalized_, decoded, det_event, end, frame, kr, rc, ncalls,
                  partial, out >>

NextMatcher == PraseGrammar

SpecMatcher == InitMatcher /\ [][NextMatcher]_vars

(* --------------- the recognizer on its own: KaldiRecognizer ------------ *)

\* A recognizer as vosk_recog_channel_recognize creates it, called by any
\* sequence of AcceptWaveform, Result and PartialResult.
InitRecognizer ==
  /\ chan_state = "open"
  /\ nreq = 1
  /\ msg = TaskMsg("REQUEST_PROCESS", "RECOGNIZE", "absent")
  /\ descriptor = 8000
  /\ recog_request = 1
  /\ stop_response = 0
  /\ timers_started = ApTrue
  /\ detector = "INACTIVITY"
  /\ audio_out = TRUE
  /\ grammar = NullDoc
  /\ recognizer = "live"
  /\ input_finalized_ = FALSE
  /\ decoded = FALSE
  /\ sw_pc = "recognizer"
  /\ det_event = "NONE"
  /\ end = 0
  /\ frame = NoFrame
  /\ kr = KaldiRecognizer
  /\ rc = NoCall
  /\ ncalls = 0
  /\ partial = <<>>
  /\ early = NULL
  /\ out = << Msg("open-response", "-", 0, StatusSuccess, "-", "-", <<>>),
              Msg("response", "-", 1, StatusSuccess, "IN-PROGRESS", "-", <<>>) >>
  /\ fault = "none"

\* a call on the recognizer: the channel is not touched
RecognizerCall ==
  /\ fault = "none"
  /\ sw_pc = "recognizer"
  /\ ncalls < MaxCalls
  /\ ncalls' = ncalls + 1
  /\ UNCHANGED << chan_state, nreq, msg, descriptor, recog_request, stop_response,
                  timers_started, detector, audio_out, grammar, recognizer, decoded,
                  sw_pc, det_event, end, frame, partial, early, out >>

\* mutant: AcceptWaveform resets the recognizer on every call
accept_reset_always(k, fin) == CleanUp(k)

\* KaldiRecognizer::AcceptWaveform: lines 56-59, the reset of a finalized
\* recognizer
accept_reset(k, fin) == IF fin THEN CleanUp(k) ELSE k

\* KaldiRecognizer::AcceptWaveform from line 61 on: the audio adds n decoded
\* frames, leaves pend frames waiting for right context, and with new frames
\* the best hypothesis becomes h
accept_audio(k, n, pend, h) ==
  [ k EXCEPT
      !.feature_pipeline_.adapt = IF n + pend > 0 THEN @ + 1 ELSE @,
      !.feature_pipeline_.pending = pend,
      !.decoder_.frames = @ + n,
      !.decoder_.hyp = IF n > 0 THEN h ELSE @ ]

AcceptWaveform ==
  \E n \in FrameSteps, pend \in { 0, 1 }, h \in Hyps, endpoint \in BOOLEAN :
    /\ RecognizerCall
    /\ kr' = accept_audio(accept_reset(kr, input_finalized_), n, pend, h)
    /\ input_finalized_' = FALSE
    /\ rc' = [ rc EXCEPT !.op = "AcceptWaveform", !.prev = rc.op,
                         !.val = IF endpoint THEN << "true" >> ELSE << "false" >> ]
    /\ fault' = fault

\* mutant: Result finalizes the decoder on every call
result_finalizes_always(fin) == TRUE

\* KaldiRecognizer::Result, line 89
result_finalizes(fin) == ~fin

\* KaldiRecognizer::Result, lines 89-104: InputFinished releases the frames
\* held back, AdvanceDecoding decodes them (the hypothesis becomes h),
\* FinalizeDecoding closes the decoder
result_finalize(k, fin, h) ==
  IF result_finalizes(fin)
  THEN [ k EXCEPT
           !.feature_pipeline_.pending = 0,
           !.decoder_.frames = @ + k.feature_pipeline_.pending,
           !.decoder_.hyp = IF k.feature_pipeline_.pending > 0 THEN h ELSE @,
           !.decoder_.finalizations = @ + 1 ]
  ELSE k

\* KaldiRecognizer::Result.  GetLattice is defined for a decoder that has
\* decoded a frame; with none decoded the library either raises an error or
\* yields an empty lattice (lattice_ok).  A call that finds the recognizer
\* finalized reads the decoder an earlier call has read, with the same outcome.
Result ==
  \E h \in Hyps, lattice_ok \in BOOLEAN :
    LET k == result_finalize(kr, input_finalized_, h) IN
    /\ RecognizerCall
    /\ kr' = k
    /\ input_finalized_' = IF result_finalizes(input_finalized_) THEN TRUE
                           ELSE input_finalized_
    /\ IF k.decoder_.frames = 0 /\ ~input_finalized_ /\ ~lattice_ok
       THEN /\ fault' = "Result: lattice of a decoder with no decoded frame"
            /\ rc' = [ rc EXCEPT !.op = "Result", !.prev = rc.op, !.val = <<>> ]
       ELSE /\ fault' = fault
            /\ rc' = [ op |-> "Result", prev |-> rc.op,
                       val |-> ResultText(k.decoder_.hyp),
                       last_result |-> ResultText(k.decoder_.hyp) ]

\* mutant: the threshold test lets the last frame below the minimum through
partial_is_empty_off_by_one(frames) == frames < MinFrames - 1

\* KaldiRecognizer::PartialResult, line 146
partial_is_empty(frames) == frames < MinFrames

\* KaldiRecognizer::PartialResult.  AdvanceDecoding finds no new frame (each
\* AcceptWaveform has decoded what was ready); on a decoder FinalizeDecoding
\* has closed the library either raises an error or does nothing (advance_ok).
PartialResult ==
  \E advance_ok \in BOOLEAN :
    /\ RecognizerCall
    /\ UNCHANGED << kr, input_finalized_ >>
    /\ IF kr.decoder_.finalizations > 0 /\ ~advance_ok
       THEN /\ fault' = "PartialResult: AdvanceDecoding on a finalized decoder"
            /\ rc' = [ rc EXCEPT !.op = "PartialResult", !.prev = rc.op, !.val = <<>> ]
       ELSE /\ fault' = fault
            /\ rc' = [ rc EXCEPT
                         !.op = "PartialResult",
                         !.prev = rc.op,
                         !.val = IF partial_is_empty(kr.decoder_.frames)
                                 THEN PartialResultText(<<>>)
                                 ELSE PartialResultText(kr.decoder_.hyp) ]

NextRecognizer ==
  \/ AcceptWaveform
  \/ Result
  \/ PartialResult

SpecRecognizer == InitRecognizer /\ [][NextRecognizer]_vars

\* The media thread keeps delivering frames: a frame step that stays enabled
\* is eventually taken.
FairSpec ==
  /\ Spec
  /\ WF_vars(StreamWriteBegin)
  /\ WF_vars(StreamWriteDetect)
  /\ WF_vars(StreamWriteDecode)

(* ------------------------------ properties ----------------------------- *)

ResponsesIn(o, r) == { i \in 1..Len(o) : o[i].kind = "response" /\ o[i].req = r }

CompletionsIn(o, r) ==
  { i \in 1..Len(o) : o[i].method = "RECOGNITION-COMPLETE" /\ o[i].req = r }

\* request r was answered IN-PROGRESS
Accepted(r) ==
  \E i \in 1..Len(out) :
    out[i].kind = "response" /\ out[i].req = r /\ out[i].state = "IN-PROGRESS"

\* the step is one of the consumer task's handlers
WorkerStep == nreq' # nreq \/ chan_state' # chan_state

\* the step hands exactly the message m to the server
Sends(m) == out' = Append(out, m)

\* the step processes a request of method m
Handles(m) == nreq' = nreq + 1 /\ msg'.method = m

\* C1: whenever an accepted request stops being the channel's active request,
\* exactly one RECOGNITION-COMPLETE has been emitted for it.
C1_ExactlyOneCompletion ==
  [][ (recog_request # 0 /\ recog_request' # recog_request)
        => Cardinality(CompletionsIn(out', recog_request)) = 1 ]_vars

\* the first step of a frame, taken with a stop pending and a request active
StopFrame ==
  /\ sw_pc = "idle"
  /\ stop_response # 0
  /\ recog_request # 0
  /\ ~WorkerStep

C3_ExactlyOneResponse ==
  /\ \A r \in 1..nreq : r # stop_response => Cardinality(ResponsesIn(out, r)) = 1
  /\ chan_state # "created"
       => Cardinality({ i \in 1..Len(out) : out[i].kind = "open-response" }) = 1
  /\ chan_state = "closed"
       => Cardinality({ i \in 1..Len(out) : out[i].kind = "close-response" }) = 1

\* C4: while frames keep coming, every recorded STOP is eventually answered
\* (a run that faults is not held against the claim).
C4_RecordedStopAnswered ==
  \A s \in 1..MaxReq :
    (stop_response = s) ~> (ResponsesIn(out, s) # {} \/ fault # "none")

\* C5: a RECOGNIZE processed while a request is active leaves that request the
\* active one.
C5_RecognizeKeepsActive ==
  [][ (recog_request # 0 /\ Handles("RECOGNIZE"))
        => recog_request' = recog_request ]_vars

\* C6: a RECOGNITION-COMPLETE with cause no-input-timeout is sent only by the
\* detector step of a frame, for the active request, when the detector
\* reported NOINPUT and timers_started was TRUE; a NOINPUT frame taken with
\* timers_started not TRUE sends nothing and leaves the request active.
C6_NoInputOnlyWithTimers ==
  [][ /\ (Len(out') = Len(out) + 1 /\ out'[Len(out')].cause = CauseNoInputTimeout)
           => /\ sw_pc = "detect"
              /\ det_event' = "NOINPUT"
              /\ timers_started = ApTrue
              /\ recog_request # 0
              /\ out'[Len(out')].method = "RECOGNITION-COMPLETE"
              /\ out'[Len(out')].req = recog_request
      /\ (sw_pc = "detect" /\ det_event' = "NOINPUT" /\ timers_started # ApTrue)
           => /\ out' = out
              /\ recog_request' = recog_request
              /\ recog_request' # 0 ]_vars

\* one request was completed by a no-input timeout, and a later one, whose
\* timers are not started, has just had a NOINPUT frame and is still active
C6_NoInputWithAndWithoutTimers ==
  /\ \E i \in 1..Len(out) : out[i].cause = CauseNoInputTimeout
  /\ sw_pc = "decode"
  /\ det_event = "NOINPUT"
  /\ timers_started = ApFalse
  /\ recog_request # 0

\* C7: a DEFINE-GRAMMAR with a malformed body is answered method-failed and
\* leaves the stored grammar as it was.
C7_MalformedGrammarRejected ==
  [][ (Handles("DEFINE-GRAMMAR") /\ msg'.detail \in Malformed)
        => /\ grammar' = grammar
           /\ Sends(Msg("response", "-", nreq', StatusMethodFailed, "COMPLETE",
                        "-", <<>>)) ]_vars

\* C8: a RECOGNIZE processed without a codec descriptor is answered
\* method-failed and changes nothing else: no active request, timers_started
\* as before, no recognizer, no utterance file.
C8_RecognizeWithoutCodec ==
  [][ (Handles("RECOGNIZE") /\ descriptor = 0)
        => /\ Sends(Msg("response", "-", nreq', StatusMethodFailed, "COMPLETE",
                        "-", <<>>))
           /\ recog_request = 0 /\ recog_request' = 0
           /\ timers_started' = timers_started
           /\ recognizer = NULL /\ recognizer' = NULL
           /\ audio_out = FALSE /\ audio_out' = FALSE
           /\ UNCHANGED << stop_response, grammar, detector >> ]_vars

\* a RECOGNIZE has just been refused for want of a codec descriptor, with
\* timers_started still holding what it held before
C8_RecognizeRefused ==
  /\ descriptor = 0
  /\ msg.method = "RECOGNIZE"
  /\ msg.detail = ApFalse
  /\ timers_started = ApTrue
  /\ out[Len(out)] = Msg("response", "-", nreq, StatusMethodFailed, "COMPLETE", "-", <<>>)
  /\ recog_request = 0
  /\ recognizer = NULL

\* C9: with no grammar defined, the per-frame partial-result step does not
\* fault on the absent grammar.
C9_NoFaultWithoutGrammar ==
  grammar = NullDoc => fault # "prase_grammar: null doc"

\* the first rule, in document order, one of whose patterns matches the text
FirstMatch(elems, text) ==
  LET hits == { e \in 1..Len(elems) :
                  /\ elems[e].name = "rule"
                  /\ \E k \in 1..Len(elems[e].items) :
                       /\ elems[e].items[k] # NoText
                       /\ regcomp_ok(elems[e].items[k] \o << "." >>)
                       /\ regexec_match(elems[e].items[k] \o << "." >>, text) }
  IN IF hits = {} THEN NULL
     ELSE elems[CHOOSE e \in hits : \A f \in hits : e <= f].id

\* C10: the matcher returns the identifier of the first rule, in document
\* order, that matches the partial text, and none when no rule matches.
C10_FirstMatchingRule ==
  (sw_pc = "matched" /\ fault = "none")
    => early = FirstMatch(grammar[1].elems, partial)

\* the step is the decoder step of a frame
DecodeStep == sw_pc = "decode" /\ sw_pc' = "idle"

\* C11: on a frame the detector left in progress, for which the decoder
\* reports no endpoint: when the partial text matches a grammar rule the
\* request is completed at once with cause success and a body made of the
\* final result followed by the marker carrying the matched rule's
\* identifier; when it matches no rule the step sends nothing.
C11_EarlyMatchCompletes ==
  [][ (/\ DecodeStep
       /\ recognizer # NULL
       /\ frame.ret = 0
       /\ end = 0
       /\ recog_request # 0
       /\ grammar # NullDoc)
        => LET id == FirstMatch(grammar[1].elems, PartialResultText(frame.hyp)) IN
           IF id # NULL
           THEN /\ Sends(Msg("event", "RECOGNITION-COMPLETE", recog_request, "-",
                             "COMPLETE", CauseSuccess,
                             << "result", "<earlyres>", id, "</earlyres>" >>))
                /\ recog_request' = 0
           ELSE out' = out ]_vars

\* C12: the consumer task and the frame callback never work on the channel's
\* state at the same time: while a frame is in progress no handler of the
\* consumer task changes a field the frame reads or writes.
C12_OneThreadAtATime ==
  [][ (sw_pc # "idle" /\ WorkerStep)
        => UNCHANGED << recog_request, stop_response, timers_started, grammar,
                        recognizer, detector >> ]_vars

\* the step is a call of the recognizer's method op
Calls(op) == ncalls' = ncalls + 1 /\ rc'.op = op

\* C13: Result called on a recognizer that is not finalized, or whose decoder
\* has decoded no frame, does not fail and returns the well-formed result
\* with no words and an empty text.
C13_ResultBeforeFinalization ==
  [][ (Calls("Result") /\ (~input_finalized_ \/ kr.decoder_.frames = 0))
        => /\ fault' = "none"
           /\ rc'.val = ResultText(<<>>) ]_vars

\* C14: a Result call that finds the recognizer finalized (an earlier Result,
\* no AcceptWaveform and so no reset since) returns what the earlier call
\* returned and leaves the decoder as it is: no second finalization, no
\* further frame decoded.
C14_ResultTwiceSame ==
  [][ (Calls("Result") /\ input_finalized_)
        => /\ fault' = "none"
           /\ rc'.val = rc.last_result
           /\ kr' = kr
           /\ input_finalized_' ]_vars

\* Result has been called twice in a row on a decoder holding a hypothesis
C14_ResultCalledTwice ==
  /\ rc.op = "Result"
  /\ rc.prev = "Result"
  /\ rc.val = ResultText(Str_yes)
  /\ kr.decoder_.finalizations = 1
  /\ fault = "none"

\* C15: the reset for the next utterance (AcceptWaveform on a finalized
\* recognizer) leaves the recognizer with a decoder, a feature pipeline and a
\* silence-weighting helper allocated by that reset, the new decoder holding
\* only this call's frames, and the new pipeline holding the adaptation state
\* of the old one (adapted further by this call's audio, if any); no call
\* ever takes an adaptation state back to blank.
C15_ResetKeepsAdaptation ==
  [][ /\ (Calls("AcceptWaveform") /\ input_finalized_)
           => /\ kr'.feature_pipeline_.id >= kr.next_id
              /\ kr'.silence_weighting_ >= kr.next_id
              /\ kr'.decoder_.id >= kr.next_id
              /\ Cardinality({ kr'.feature_pipeline_.id, kr'.silence_weighting_,
                               kr'.decoder_.id }) = 3
              /\ kr'.decoder_.frames \in FrameSteps
              /\ kr'.decoder_.finalizations = 0
              /\ kr'.feature_pipeline_.adapt
                   = kr.feature_pipeline_.adapt
                       + (IF kr'.decoder_.frames + kr'.feature_pipeline_.pending > 0
                          THEN 1 ELSE 0)
              /\ ~input_finalized_'
      /\ kr.feature_pipeline_.adapt > 0 => kr'.feature_pipeline_.adapt > 0 ]_vars

\* a reset has just installed, in a new pipeline, the adaptation state of two
\* calls' audio, and the call that made it brought no audio
C15_ResetWithAdaptation ==
  /\ rc.op = "AcceptWaveform"
  /\ kr.feature_pipeline_.id = 4
  /\ kr.decoder_.id = 6
  /\ kr.decoder_.frames = 0
  /\ kr.feature_pipeline_.pending = 0
  /\ kr.feature_pipeline_.adapt = 2

\* C16: a partial result taken while the decoder has decoded fewer than
\* MinFrames frames is the empty partial text, whatever hypothesis the audio
\* accepted so far has produced.
C16_PartialEmptyBelowThreshold ==
  [][ (Calls("PartialResult") /\ fault' = "none" /\ kr.decoder_.frames < MinFrames)
        => rc'.val = PartialResultText(<<>>) ]_vars

\* one frame short of the threshold, with a hypothesis in the decoder, the
\* partial result has just come back empty
C16_PartialJustBelowThreshold ==
  /\ rc.op = "PartialResult"
  /\ kr.decoder_.frames = MinFrames - 1
  /\ kr.decoder_.hyp = Str_yes
  /\ rc.val = PartialResultText(<<>>)
  /\ fault = "none"

\* C17: every utterance starts from fresh decode state.  The recognizer is
\* reset only by the AcceptWaveform that finds it finalized, and finalized
\* only by the Result call of a completion; so the claim requires that a
\* step which ends the active request, whatever the cause, leaves a
\* recognizer that has been given audio finalized.
C17_UtteranceEndsFinalized ==
  [][ (recog_request # 0 /\ recog_request' = 0 /\ recognizer # NULL /\ decoded')
        => input_finalized_' ]_vars

\* C18: a frame on which the detector step raised a completion (end is 1) is
\* not given to the recognizer: the rest of the frame leaves the recognizer,
\* the active request and the messages sent as they are, and does not fault.
C18_CompletedFrameNotDecoded ==
  [][ (DecodeStep /\ end = 1)
        => UNCHANGED << input_finalized_, decoded, recog_request, out, fault >> ]_vars

\* C19: vosk_recog_recognition_complete is never entered with the active
\* request already cleared, and a frame whose detector step raised a
\* completion raises no second one in its decoder step.
C19_CompletionOnlyWhileActive ==
  [][ /\ fault' # "recognition_complete: null recog_request"
      /\ (DecodeStep /\ end = 1) => out' = out ]_vars

\* C20: the frame that answers a pending STOP leaves active a request that
\* was accepted after that STOP was processed (request ids grow in the order
\* of processing).
C20_StopKeepsLaterRequest ==
  [][ (/\ sw_pc = "idle"
       /\ ~WorkerStep
       /\ stop_response # 0
       /\ recog_request > stop_response)
        => recog_request' = recog_request ]_vars

\* C21: once close-channel has been processed the recognizer is gone and is
\* not used again: no later step gives it audio or asks it for a result, and
\* no event is sent for a request that was still active at the close.
C21_NothingAfterClose ==
  [][ chan_state = "closed"
        => /\ recognizer' = NULL
           /\ UNCHANGED << decoded, input_finalized_ >>
           /\ fault' # "vosk_recognizer_result: null recognizer"
           /\ \A i \in (Len(out) + 1)..Len(out') : out'[i].kind # "event" ]_vars

\* C22: AcceptWaveform on a finalized recognizer does not fail; it resets the
\* recognizer once (one new pipeline, helper and decoder), clears the
\* finalized flag and gives the audio to the new decoder.  On a recognizer
\* that is not finalized it allocates nothing and adds the audio to the
\* frames the decoder holds.
C22_AcceptResetsOnlyFinalized ==
  [][ Calls("AcceptWaveform")
        => /\ fault' = "none"
           /\ ~input_finalized_'
           /\ IF input_finalized_
              THEN /\ kr'.next_id = kr.next_id + 3
                   /\ kr'.decoder_.id = kr.next_id + 2
                   /\ kr'.decoder_.frames \in FrameSteps
              ELSE /\ kr'.next_id = kr.next_id
                   /\ kr'.decoder_.id = kr.decoder_.id
                   /\ kr'.feature_pipeline_.id = kr.feature_pipeline_.id
                   /\ kr'.silence_weighting_ = kr.silence_weighting_
                   /\ kr'.decoder_.frames - kr.decoder_.frames \in FrameSteps
                   /\ kr'.decoder_.finalizations = kr.decoder_.finalizations ]_vars

\* audio has just been accepted right after a Result: the recognizer was
\* reset once and the new decoder holds this call's frames
C22_AcceptedAfterResult ==
  /\ rc.op = "AcceptWaveform"
  /\ rc.prev = "Result"
  /\ ~input_finalized_
  /\ kr.next_id = 7
  /\ kr.decoder_.id = 6
  /\ kr.decoder_.frames = 24
  /\ fault = "none"

\* C23: a RECOGNIZE accepted while no request is active starts its utterance
\* with the detector in its initial state, whatever the detector saw before.
C23_DetectorResetOnRecognize ==
  [][ (Handles("RECOGNIZE") /\ descriptor # 0 /\ recog_request = 0)
        => detector' = "INACTIVITY" ]_vars

\* C24: a START-OF-INPUT event is sent only by the detector step of a frame
\* on which the detector reported activity, for the request active at that
\* moment, and never for a request whose RECOGNITION-COMPLETE has been sent.
C24_StartOfInputOnlyOnActivity ==
  [][ \A i \in (Len(out) + 1)..Len(out') :
        out'[i].method = "START-OF-INPUT"
          => /\ sw_pc = "detect"
             /\ det_event' = "ACTIVITY"
             /\ recog_request # 0
             /\ out'[i].req = recog_request
             /\ CompletionsIn(out', recog_request) = {} ]_vars

\* a request had its START-OF-INPUT and, later, its RECOGNITION-COMPLETE
C24_StartOfInputThenComplete ==
  \E i \in 1..Len(out), j \in 1..Len(out) :
    /\ i < j
    /\ out[i].method = "START-OF-INPUT"
    /\ out[j].method = "RECOGNITION-COMPLETE"
    /\ out[i].req = out[j].req

\* some pattern of some rule of the document fails to compile
HasBadPattern(elems) ==
  \E e \in 1..Len(elems) :
    /\ elems[e].name = "rule"
    /\ \E k \in 1..Len(elems[e].items) :
         /\ elems[e].items[k] # NoText
         /\ ~regcomp_ok(elems[e].items[k] \o << "." >>)

\* C25: a pattern that fails to compile counts as a pattern that does not
\* match: for a grammar holding such a pattern the matcher still goes through
\* the remaining patterns and rules and returns the first rule that matches,
\* the request stays in progress and nothing is sent because of the failure.
C25_BadPatternIsNoMatch ==
  (sw_pc = "matched" /\ fault = "none" /\ HasBadPattern(grammar[1].elems))
    => /\ early = FirstMatch(grammar[1].elems, partial)
       /\ recog_request = 1
       /\ Len(out) = 2

\* C26: a frame that finds no pending stop and no active request changes
\* nothing: the detector is not run, no audio reaches the recognizer or the
\* utterance file, and no event or response is sent.
C26_IdleFrameChangesNothing ==
  [][ (/\ sw_pc # sw_pc'
       /\ sw_pc \in { "idle", "detect" }
       /\ recog_request = 0
       /\ stop_response = 0)
        => /\ sw_pc' \in { "idle", "detect" }
           /\ UNCHANGED << chan_state, nreq, msg, descriptor, recog_request,
                           stop_response, timers_started, detector, audio_out,
                           grammar, recognizer, input_finalized_, decoded,
                           det_event, end, frame, kr, rc, ncalls, partial, early,
                           out, fault >> ]_vars

\* a frame is under way on a channel whose recognizer and utterance file are
\* there from a completed request, with no request active and no stop pending
C26_IdleFrameUnderWay ==
  /\ sw_pc = "detect"
  /\ recog_request = 0
  /\ stop_response = 0
  /\ recognizer # NULL
  /\ audio_out
  /\ fault = "none"

\* C27: the sampling rate at which a channel's recognizer is created and at
\* which it interprets the audio is the rate negotiated for the channel's
\* stream, 8000 or 16000.
C27_RecognizerRateIsStreamRate ==
  recognizer # NULL
    => /\ vosk_recognizer_new_rate = descriptor
       /\ AcceptWaveformRate = descriptor

=============================================================================
